---- MODULE Spec2Model ----
(***************************************************************************)
(* State-machine model of the data layer of 2theta_SSRF_250403_final.py:   *)
(* the Dataset records held by XRDDataAnalyzer, the ROI press/motion/      *)
(* release handlers, fit_peaks, clear_all, adjust_energy_axis, the dataset *)
(* selector, import_data and export_data; and of the 2-theta calibration   *)
(* panel: the d and E cells of its table and calibrate_2theta.             *)
(*                                                                         *)
(* Numbers.  Every x value (channel, energy, pointer position, ROI bound)  *)
(* is a fixed-point number in units of 0.001, so the literal 0.001 of      *)
(* on_release is the integer 1 and 1.0 is 1000.  Counts are integers.      *)
(* Quantities that only scipy can compute (popt, pcov and the metrics      *)
(* derived from them) are kept symbolic: a fit result names the curve_fit  *)
(* call it came from and says which expression each field holds.  The d    *)
(* and E values of the calibration table are in units of 0.0001; the mean  *)
(* and deviation of the 2-theta values are symbolic too: they name the     *)
(* pairs they are taken over and whether numpy yields nan for them.        *)
(***************************************************************************)
EXTENDS Integers, Sequences, FiniteSets, TLC

VARIABLES datasets,                 \* self.datasets: sequence of Dataset records
          current_dataset_index,    \* self.current_dataset_index (0-based, -1 = none)
          region_selection_active,  \* self.region_selection_active
          current_roi,              \* self.current_roi (some = FALSE models None)
          last,                     \* history: the last handler that got past its early
                                    \* returns, its outcome, and what it started from
          calib_table,              \* self.calib_table: the d and E cells of each row
          calibrated,               \* self.calibrated ("unset" until first assigned)
          calib_params,             \* self.calib_params (some = FALSE models None)
          calib_status              \* the text of self.calib_status

calibVars == <<calib_table, calibrated, calib_params, calib_status>>

vars == <<datasets, current_dataset_index, region_selection_active, current_roi, last,
          calib_table, calibrated, calib_params, calib_status>>

----------------------------------------------------------------------------
(* Bounds of the model *)

MaxDatasets == 2      \* datasets imported in one run
MaxRegions == 2       \* regions held by all datasets together
MaxPaletteRegions == 11   \* the same, in the specification that walks round the palette
TableRows == 2        \* rows of the 2-theta calibration table

(* Program constants *)

Epsilon == 1               \* the 0.001 of on_release: one fixed-point unit
Milli == 1000 * Epsilon    \* 1.0 in fixed-point units
SigmaDivisor == 6          \* sigma_guess = (x_max - x_min) / 6
TableUnit == 10000         \* d and E of the calibration table are in units of 0.0001
HC_KEV_ANGSTROM == 1239842000   \* 12.39842, in units of 0.0001 * 0.0001

colors == << "#1f77b4", "#ff7f0e", "#2ca02c", "#d62728", "#9467bd",
             "#8c564b", "#e377c2", "#7f7f7f", "#bcbd22", "#17becf" >>

----------------------------------------------------------------------------
(* Inputs the environment can supply *)

\* event.xdata of the press, motion and release events
PressXs == {2000}
MotionXs == {4000}
ReleaseXs == {1, 2001, 4000}
PaletteReleaseXs == {1, 4000}

\* Files on disk as np.loadtxt sees them: rows of numbers (x in 0.001 units).
FileThreeCol == << <<1000, -3, 1>>, <<3000, 40, 1>>, <<5000, 7, 0>> >>
FileOneCol == << <<1000>>, <<2000>>, <<3000>> >>
FileOneRow == << <<1000, 10>> >>
FileEmpty == << >>
Files == {FileThreeCol, FileOneCol, FileOneRow, FileEmpty}
FileTwoRows == << <<2000, 5>>, <<1000, 6>> >>
WideFiles == Files \cup {FileTwoRows}

\* Texts of the a_edit, b_edit, c_edit line edits
ATexts == {"0", "abc"}
BTexts == {"1", ""}
CTexts == {"2", "1e"}
\* Texts typed into the d and E cells of the calibration table
DTexts == {"2.1065", "0", "abc"}
ETexts == {"5", "2", ""}

WideATexts == {"0", "0.001", "-0.001"}
WideBTexts == {"1", "-1", ""}
WideCTexts == {"-1"}

----------------------------------------------------------------------------
(* Helpers *)

Abs(n) == IF n < 0 THEN -n ELSE n
Min2(a, b) == IF a <= b THEN a ELSE b
Max2(a, b) == IF a >= b THEN a ELSE b

\* Variant: a text that is not a number reads as zero
ParseFloat_Lenient(t) ==
    CASE t = "1" -> [ok |-> TRUE, val |-> 1 * Milli]
      [] t = "2" -> [ok |-> TRUE, val |-> 2 * Milli]
      [] OTHER   -> [ok |-> TRUE, val |-> 0]

\* python float(text): the value in 0.001 units, or a ValueError
ParseFloat(t) ==
    CASE t = "0" -> [ok |-> TRUE, val |-> 0]
      [] t = "1" -> [ok |-> TRUE, val |-> 1 * Milli]
      [] t = "2" -> [ok |-> TRUE, val |-> 2 * Milli]
      [] t = "-1" -> [ok |-> TRUE, val |-> -1 * Milli]
      [] t = "0.001" -> [ok |-> TRUE, val |-> Epsilon]
      [] t = "-0.001" -> [ok |-> TRUE, val |-> -Epsilon]
      [] OTHER   -> [ok |-> FALSE, val |-> 0]

\* self.current_roi = None.  width = 0 stands for "no 'width' key yet"; the
\* g_ fields are history (where the drag began), not program state.
NoRoi == [some |-> FALSE, x_min |-> 0, width |-> 0, g_ds |-> -1, g_stale |-> FALSE]

\* A value of the history variable
Did(op, tag, pre) == [op |-> op, tag |-> tag, pre |-> pre]
NoPre == [none |-> TRUE]

\* What a handler found in the dataset it worked on (history)
Found(d) == [regions |-> d.selected_regions # <<>>, fits |-> Len(d.fit_results),
             adjusted |-> d.x_axis_adjusted]

\* What adjust_energy_axis found, and the coefficients it parsed (history)
FoundWith(d, a, b, c) ==
    [regions |-> d.selected_regions # <<>>, fits |-> Len(d.fit_results),
     adjusted |-> d.x_axis_adjusted, a |-> a, b |-> b, c |-> c,
     was |-> d.adjusted_data]

\* What fit_peaks found, and whether the handler before it was fit_peaks too (history)
FoundAgain(d) ==
    [regions |-> d.selected_regions # <<>>, fits |-> Len(d.fit_results),
     adjusted |-> d.x_axis_adjusted, again |-> last.op = "fit_peaks"]

\* The table import_data was given (history)
Shape(file) == [rows |-> Len(file), columns |-> IF file = <<>> THEN 0 ELSE Len(file[1])]
Loaded(file) == [file |-> file]

\* Variant: the adjusted series is not filled in at construction
Dataset_NoCopy(raw) ==
    [raw_data |-> raw,
     adjusted_data |-> <<>>,
     fit_results |-> <<>>,
     selected_regions |-> <<>>,
     x_axis_adjusted |-> FALSE]

\* Dataset.__init__: adjusted_data starts as np.copy(raw_data)
Dataset(raw) ==
    [raw_data |-> raw,
     adjusted_data |-> raw,
     fit_results |-> <<>>,
     selected_regions |-> <<>>,
     x_axis_adjusted |-> FALSE]

\* XRDDataAnalyzer.current_dataset: is there one, and its 1-based position
HasCurrent == 0 <= current_dataset_index /\ current_dataset_index < Len(datasets)
Cur == current_dataset_index + 1

\* data = dataset.adjusted_data if dataset.x_axis_adjusted else dataset.raw_data
CurrentSeries(d) == IF d.x_axis_adjusted THEN d.adjusted_data ELSE d.raw_data

----------------------------------------------------------------------------
(* Peak fitting *)

\* mask = (x_data >= roi['x_min']) & (x_data <= roi['x_max'])
Masked(data, roi) ==
    SelectSeq(data, LAMBDA row : row[1] >= roi.x_min /\ row[1] <= roi.x_max)

Column(rows, k) == [i \in 1..Len(rows) |-> rows[i][k]]

\* np.argmax: the first index holding the maximum
ArgMax(ys) ==
    CHOOSE i \in 1..Len(ys) :
        /\ \A j \in 1..Len(ys) : ys[j] <= ys[i]
        /\ \A j \in 1..(i - 1) : ys[j] < ys[i]

\* np.min
MinOf(ys) == CHOOSE v \in {ys[i] : i \in 1..Len(ys)} : \A j \in 1..Len(ys) : v <= ys[j]

\* The arguments of the curve_fit call made for one ROI with samples sel
CurveFitCall(sel, roi) ==
    LET roi_x == Column(sel, 1)
        roi_y == Column(sel, 2)
        peak_idx == ArgMax(roi_y)
        a_guess == roi_y[peak_idx]
        x0_guess == roi_x[peak_idx]
        sigma_guess == [num |-> roi.x_max - roi.x_min, den |-> SigmaDivisor]
        b_guess == 0
        c_guess == MinOf(roi_y)
    IN  [xdata |-> roi_x,
         ydata |-> roi_y,
         p0 |-> <<a_guess, x0_guess, sigma_guess, b_guess, c_guess>>,
         lb |-> <<0, roi.x_min, 0, "-inf", "-inf">>,
         ub |-> <<"inf", roi.x_max, roi.x_max - roi.x_min, "inf", "inf">>]

\* curve_fit with bounds runs least_squares, which raises ValueError
\* ("x0 is infeasible") when p0 lies outside [lb, ub].  x0_guess and
\* sigma_guess are inside by construction; a_guess is not when every
\* selected count is negative.
CurveFitRaises(call) ==
    \/ call.p0[1] < call.lb[1]
    \/ call.p0[2] < call.lb[2] \/ call.p0[2] > call.ub[2]
    \/ call.p0[3].num < call.lb[3] * call.p0[3].den
    \/ call.p0[3].num > call.ub[3] * call.p0[3].den

\* The record appended in the try branch: every field is an expression of
\* the values curve_fit returned for this call.
FittedResult(call) ==
    [params |-> "popt", cov |-> "pcov", fwhm |-> "2*sqrt(2*ln2)*popt[2]",
     integral |-> "simps(gaussian)", r_squared |-> "1-ss_res/ss_tot", call |-> call]

\* The record appended in the except branch
DummyResult(call) ==
    [params |-> "p0", cov |-> "zeros(5,5)", fwhm |-> "0",
     integral |-> "0", r_squared |-> "0", call |-> call]

FitOne(sel, roi) ==
    LET call == CurveFitCall(sel, roi)
    IN  IF CurveFitRaises(call) THEN DummyResult(call) ELSE FittedResult(call)

\* Variant: a solver error ends the loop instead of being caught per region
RECURSIVE FitLoop_AbortOnError(_, _, _, _)
FitLoop_AbortOnError(data, regions, i, acc) ==
    IF i > Len(regions) THEN acc
    ELSE LET roi == regions[i]
             sel == Masked(data, roi)
         IN  IF sel = <<>>
             THEN FitLoop_AbortOnError(data, regions, i + 1, acc)
             ELSE IF CurveFitRaises(CurveFitCall(sel, roi))
                  THEN acc
                  ELSE FitLoop_AbortOnError(data, regions, i + 1, Append(acc, FitOne(sel, roi)))

\* Variant: a region without samples gets a placeholder instead of being skipped
RECURSIVE FitLoop_EmptyAppends(_, _, _, _)
FitLoop_EmptyAppends(data, regions, i, acc) ==
    IF i > Len(regions) THEN acc
    ELSE LET roi == regions[i]
             sel == Masked(data, roi)
         IN  IF sel = <<>>
             THEN FitLoop_EmptyAppends(data, regions, i + 1,
                      Append(acc, DummyResult([xdata |-> <<>>, ydata |-> <<>>,
                                               p0 |-> <<0, roi.x_min, [num |-> 0, den |-> SigmaDivisor], 0, 0>>,
                                               lb |-> <<0, roi.x_min, 0, "-inf", "-inf">>,
                                               ub |-> <<"inf", roi.x_max, roi.x_max - roi.x_min, "inf", "inf">>])))
             ELSE FitLoop_EmptyAppends(data, regions, i + 1, Append(acc, FitOne(sel, roi)))

\* for roi in dataset.selected_regions: ... continue / append
RECURSIVE FitLoop(_, _, _, _)
FitLoop(data, regions, i, acc) ==
    IF i > Len(regions) THEN acc
    ELSE LET roi == regions[i]
             sel == Masked(data, roi)
         IN  IF sel = <<>>
             THEN FitLoop(data, regions, i + 1, acc)
             ELSE FitLoop(data, regions, i + 1, Append(acc, FitOne(sel, roi)))

\* Variant: the earlier results are kept and the new ones appended after them
PreviousKept(d) == d.fit_results

\* dataset.fit_results = []
PreviousDiscarded(d) == <<>>

\* Variant: the new results are put in front of the old ones
FitResultsOf_Prepends(d) ==
    FitLoop(CurrentSeries(d), d.selected_regions, 1, <<>>) \o d.fit_results

\* the list fit_peaks leaves in dataset.fit_results
FitResultsOf(d) == FitLoop(CurrentSeries(d), d.selected_regions, 1, PreviousDiscarded(d))

fit_peaks ==
    IF ~HasCurrent \/ datasets[Cur].selected_regions = <<>>
    THEN UNCHANGED vars
    ELSE /\ datasets' = [datasets EXCEPT ![Cur].fit_results = FitResultsOf(datasets[Cur])]
         /\ last' = Did("fit_peaks", "done", FoundAgain(datasets[Cur]))
         /\ UNCHANGED <<current_dataset_index, region_selection_active, current_roi, calibVars>>

----------------------------------------------------------------------------
(* ROI selection *)

\* Variant: leaving selection mode keeps the pending drag
toggle_roi_selection_KeepsDrag(active) ==
    /\ region_selection_active' = active
    /\ last' = Did("toggle_roi_selection", IF active THEN "on" ELSE "off", NoPre)
    /\ UNCHANGED <<datasets, current_dataset_index, current_roi, calibVars>>

toggle_roi_selection(active) ==
    /\ region_selection_active' = active
    /\ current_roi' = IF active THEN current_roi ELSE NoRoi
    /\ last' = Did("toggle_roi_selection", IF active THEN "on" ELSE "off", NoPre)
    /\ UNCHANGED <<datasets, current_dataset_index, calibVars>>

\* select_btn.toggled fires when the checked state flips
ToggleSelection == toggle_roi_selection(~region_selection_active)

on_press(x, inaxes) ==
    IF ~region_selection_active \/ ~inaxes
    THEN UNCHANGED vars
    ELSE /\ current_roi' = [some |-> TRUE, x_min |-> x, width |-> 0,
                            g_ds |-> current_dataset_index, g_stale |-> FALSE]
         /\ last' = Did("on_press", "started", NoPre)
         /\ UNCHANGED <<datasets, current_dataset_index, region_selection_active, calibVars>>

on_motion(x, inaxes) ==
    IF ~region_selection_active \/ ~current_roi.some
    THEN UNCHANGED vars
    ELSE IF ~inaxes
         THEN UNCHANGED vars
         ELSE /\ current_roi' = [current_roi EXCEPT !.width = Max2(Epsilon, x - current_roi.x_min)]
              /\ last' = Did("on_motion", "drawn", NoPre)
              /\ UNCHANGED <<datasets, current_dataset_index, region_selection_active, calibVars>>

\* Where the press that began the drag stands relative to the dataset that is
\* current at release (history)
PressOrigin(roi) ==
    IF roi.g_ds # current_dataset_index THEN "other"
    ELSE IF roi.g_stale THEN "stale" ELSE "current"

\* Variant: the bounds are stored in drag order
NewRegion_DragOrder(d, x_press, x_release) ==
    [x_min |-> x_press, x_max |-> x_release, width |-> Abs(x_release - x_press),
     color |-> colors[(Len(d.selected_regions) % Len(colors)) + 1]]

\* Variant: the palette index wraps one entry early
NewRegion_ShortCycle(d, x_press, x_release) ==
    [x_min |-> Min2(x_press, x_release), x_max |-> Max2(x_press, x_release),
     width |-> Abs(x_release - x_press),
     color |-> colors[(Len(d.selected_regions) % (Len(colors) - 1)) + 1]]

\* The region dict appended by on_release
NewRegion(d, x_press, x_release) ==
    LET x_min == Min2(x_press, x_release)
        x_max == Max2(x_press, x_release)
        width == Abs(x_max - x_min)
        color_idx == Len(d.selected_regions) % Len(colors)
    IN  [x_min |-> x_min, x_max |-> x_max, width |-> width,
         color |-> colors[color_idx + 1]]

\* Variant: a drag of exactly 0.001 is accepted
Accepts_Inclusive(x_press, x_release, inaxes) == inaxes /\ Abs(x_release - x_press) >= Epsilon

\* if event.inaxes == self.ax and abs(event.xdata - x_min) > 0.001
Accepts(x_press, x_release, inaxes) == inaxes /\ Abs(x_release - x_press) > Epsilon

\* The two pointer positions of a drag and where its press stands (history)
Drag(x_press, x_release) ==
    [x_press |-> x_press, x_release |-> x_release, origin |-> PressOrigin(current_roi)]

on_release(x, inaxes) ==
    IF ~region_selection_active \/ ~current_roi.some
    THEN UNCHANGED vars
    ELSE IF Accepts(current_roi.x_min, x, inaxes)
         THEN IF HasCurrent
              THEN /\ datasets' = [datasets EXCEPT ![Cur].selected_regions =
                                     Append(@, NewRegion(datasets[Cur], current_roi.x_min, x))]
                   /\ region_selection_active' = FALSE
                   /\ current_roi' = NoRoi
                   /\ last' = Did("on_release", "commit", Drag(current_roi.x_min, x))
                   /\ UNCHANGED <<current_dataset_index, calibVars>>
              ELSE /\ current_roi' = NoRoi
                   /\ last' = Did("on_release", "nodataset", Drag(current_roi.x_min, x))
                   /\ UNCHANGED <<datasets, current_dataset_index, region_selection_active, calibVars>>
         ELSE /\ current_roi' = NoRoi
              /\ last' = IF inaxes THEN Did("on_release", "tiny", Drag(current_roi.x_min, x))
                                   ELSE Did("on_release", "outside", NoPre)
              /\ UNCHANGED <<datasets, current_dataset_index, region_selection_active, calibVars>>

----------------------------------------------------------------------------
(* Clearing and energy calibration *)

\* Variant: only the regions are emptied
Cleared_RegionsOnly(d) == [d EXCEPT !.selected_regions = <<>>]

\* Variant: the calibrated flag is dropped as well
Cleared_DropsFlag(d) ==
    [d EXCEPT !.selected_regions = <<>>, !.fit_results = <<>>, !.x_axis_adjusted = FALSE]

\* dataset.selected_regions = []; dataset.fit_results = []
Cleared(d) == [d EXCEPT !.selected_regions = <<>>, !.fit_results = <<>>]

\* Variant: every dataset is emptied
clear_all_EveryDataset ==
    IF ~HasCurrent
    THEN UNCHANGED vars
    ELSE /\ datasets' = [k \in 1..Len(datasets) |-> Cleared(datasets[k])]
         /\ last' = Did("clear_all", "done", Found(datasets[Cur]))
         /\ UNCHANGED <<current_dataset_index, region_selection_active, current_roi, calibVars>>

\* Variant: the adjusted series is reset to the raw one as well
clear_all_ResetsSeries ==
    IF ~HasCurrent
    THEN UNCHANGED vars
    ELSE /\ datasets' = [datasets EXCEPT ![Cur] = Cleared([@ EXCEPT !.adjusted_data = datasets[Cur].raw_data])]
         /\ last' = Did("clear_all", "done", Found(datasets[Cur]))
         /\ UNCHANGED <<current_dataset_index, region_selection_active, current_roi, calibVars>>

clear_all ==
    IF ~HasCurrent
    THEN UNCHANGED vars
    ELSE /\ datasets' = [datasets EXCEPT ![Cur] = Cleared(@)]
         /\ last' = Did("clear_all", "done", Found(datasets[Cur]))
         /\ UNCHANGED <<current_dataset_index, region_selection_active, current_roi, calibVars>>

\* Variant: the quadratic term is left out
Energy_NoQuadratic(a, b, c, ch) == (b * ch) \div Milli + c

\* energies = a * channels**2 + b * channels + c, in fixed point
Energy(a, b, c, ch) == (a * ch * ch) \div (Milli * Milli) + (b * ch) \div Milli + c

\* np.column_stack((energies, counts))
Calibrated(raw, a, b, c) ==
    [i \in 1..Len(raw) |-> <<Energy(a, b, c, raw[i][1]), raw[i][2]>>]

\* Variant: the calibration is stored without the clear_all() call
Adjusted_KeepsRegions(d, a, b, c) ==
    [d EXCEPT !.adjusted_data = Calibrated(d.raw_data, a, b, c), !.x_axis_adjusted = TRUE]

\* Variant: the energies are written into the raw series as well
Adjusted_InPlace(d, a, b, c) ==
    Cleared([d EXCEPT !.raw_data = Calibrated(d.raw_data, a, b, c),
                      !.adjusted_data = Calibrated(d.raw_data, a, b, c),
                      !.x_axis_adjusted = TRUE])

\* Variant: the energies are computed from the series adjusted so far
Adjusted_FromAdjusted(d, a, b, c) ==
    Cleared([d EXCEPT !.adjusted_data = Calibrated(d.adjusted_data, a, b, c),
                      !.x_axis_adjusted = TRUE])

\* adjusted_data, x_axis_adjusted, then self.clear_all()
Adjusted(d, a, b, c) ==
    Cleared([d EXCEPT !.adjusted_data = Calibrated(d.raw_data, a, b, c),
                      !.x_axis_adjusted = TRUE])

adjust_energy_axis(ta, tb, tc) ==
    IF ~HasCurrent
    THEN UNCHANGED vars
    ELSE IF ~(ParseFloat(ta).ok /\ ParseFloat(tb).ok /\ ParseFloat(tc).ok)
         THEN /\ last' = Did("adjust_energy_axis", "invalid", NoPre)
              /\ UNCHANGED <<datasets, current_dataset_index, region_selection_active, current_roi, calibVars>>
         ELSE /\ datasets' = [datasets EXCEPT ![Cur] =
                                Adjusted(@, ParseFloat(ta).val, ParseFloat(tb).val, ParseFloat(tc).val)]
              \* history only: a pending drag begun on this dataset now predates its calibration
              /\ current_roi' = IF current_roi.some /\ current_roi.g_ds = current_dataset_index
                                THEN [current_roi EXCEPT !.g_stale = TRUE]
                                ELSE current_roi
              /\ last' = Did("adjust_energy_axis", "done",
                              FoundWith(datasets[Cur], ParseFloat(ta).val, ParseFloat(tb).val,
                                        ParseFloat(tc).val))
              /\ UNCHANGED <<current_dataset_index, region_selection_active, calibVars>>

----------------------------------------------------------------------------
(* 2-theta calibration *)

\* python float(text) of a table cell: the value in 0.0001 units, or a ValueError
TableFloat(t) ==
    CASE t = "2.1065" -> [ok |-> TRUE, val |-> 21065]
      [] t = "1.4895" -> [ok |-> TRUE, val |-> 14895]
      [] t = "5" -> [ok |-> TRUE, val |-> 5 * TableUnit]
      [] t = "2" -> [ok |-> TRUE, val |-> 2 * TableUnit]
      [] t = "0" -> [ok |-> TRUE, val |-> 0]
      [] OTHER   -> [ok |-> FALSE, val |-> 0]

\* calib_table.item(row, col): None, or an item with its text
NoItem == [item |-> FALSE, text |-> ""]
Item(t) == [item |-> TRUE, text |-> t]

\* QTableWidget(9, 3) with the default MgO d values in the first two rows
DefaultTable ==
    [r \in 1..TableRows |->
        [d |-> IF r = 1 THEN Item("2.1065") ELSE IF r = 2 THEN Item("1.4895") ELSE NoItem,
         E |-> NoItem]]

NoParams == [some |-> FALSE]
StatusWaiting == [text |-> "Status: Waiting for calibration"]

\* if d_item and e_item and d_item.text() and e_item.text(), and both float() succeed
RowGivesPair(row) ==
    /\ row.d.item /\ row.E.item
    /\ row.d.text # "" /\ row.E.text # ""
    /\ TableFloat(row.d.text).ok /\ TableFloat(row.E.text).ok

\* pairs: (d, E) of the rows that give one, in row order
Pairs(table) ==
    LET rows == SelectSeq(table, RowGivesPair)
    IN  [i \in 1..Len(rows) |-> <<TableFloat(rows[i].d.text).val, TableFloat(rows[i].E.text).val>>]

\* Variant: an empty pair list is not caught
NoPairs_Unchecked(pairs) == FALSE

\* if len(pairs) == 0
NoPairs(pairs) == Len(pairs) = 0

\* HC_KEV_ANGSTROM / (2 * d * E) on python floats raises ZeroDivisionError
DivisionRaises(pairs) == \E i \in 1..Len(pairs) : 2 * pairs[i][1] * pairs[i][2] = 0

\* np.arcsin gives nan (and a RuntimeWarning, not an exception) outside [-1, 1]
ArcsinIsNan(d, E) == HC_KEV_ANGSTROM > Abs(2 * d * E)

\* twotheta_deg = 2 * np.degrees(np.arcsin(HC_KEV_ANGSTROM / (2 * d * E))), symbolic
TwoTheta(d, E) == [nan |-> ArcsinIsNan(d, E), d |-> d, E |-> E]

TwoThetaValues(pairs) == [i \in 1..Len(pairs) |-> TwoTheta(pairs[i][1], pairs[i][2])]

\* np.mean / np.std of the values, symbolic: nan when the list is empty or holds a nan
Statistic(name, values) ==
    [stat |-> name,
     nan |-> values = <<>> \/ \E i \in 1..Len(values) : values[i].nan,
     of |-> values]

\* Variant: n is the number of table rows
StatusText_CountsRows(avg, std, pairs) ==
    [text |-> "2theta = avg +- std (n)", avg |-> avg, std |-> std, n |-> TableRows]

\* f"2θ = {avg_2theta:.5f}° ± {std_2theta:.5f}° (n={len(pairs)})"
StatusText(avg, std, pairs) ==
    [text |-> "2theta = avg +- std (n)", avg |-> avg, std |-> std, n |-> Len(pairs)]

calibrate_2theta ==
    LET pairs == Pairs(calib_table)
        values == TwoThetaValues(pairs)
        avg_2theta == Statistic("mean", values)
        std_2theta == Statistic("std", values)
    IN  IF NoPairs(pairs)
        THEN /\ last' = Did("calibrate_2theta", "nopairs", NoPre)
             /\ UNCHANGED <<datasets, current_dataset_index, region_selection_active,
                            current_roi, calibVars>>
        ELSE IF DivisionRaises(pairs)
             THEN /\ last' = Did("calibrate_2theta", "failed", NoPre)
                  /\ UNCHANGED <<datasets, current_dataset_index, region_selection_active,
                                 current_roi, calibVars>>
             ELSE /\ calibrated' = "True"
                  /\ calib_params' = [some |-> TRUE, avg |-> avg_2theta, std |-> std_2theta,
                                      hc |-> HC_KEV_ANGSTROM]
                  /\ calib_status' = StatusText(avg_2theta, std_2theta, pairs)
                  /\ last' = Did("calibrate_2theta", "done", [calibrated |-> calibrated])
                  /\ UNCHANGED <<datasets, current_dataset_index, region_selection_active,
                                 current_roi, calib_table>>

\* if d_item and e_item and d_item.text() and e_item.text(), as export_calibration tests it
RowHasTexts(row) ==
    /\ row.d.item /\ row.E.item
    /\ row.d.text # "" /\ row.E.text # ""

\* float() of a cell of such a row raises ValueError; nothing catches it per row
ExportRaises(rows) ==
    \E i \in 1..Len(rows) : ~TableFloat(rows[i].d.text).ok \/ ~TableFloat(rows[i].E.text).ok

\* d_e_pairs, without the remarks
ExportedPairs(rows) ==
    [i \in 1..Len(rows) |-> <<TableFloat(rows[i].d.text).val, TableFloat(rows[i].E.text).val>>]

\* chosen = a file name came back from the save dialog.  The status line and
\* the rows written are kept in the history.
export_calibration(chosen) ==
    IF calibrated # "True" \/ ~chosen
    THEN UNCHANGED vars
    ELSE LET rows == SelectSeq(calib_table, RowHasTexts)
         IN  /\ last' = IF ExportRaises(rows)
                        THEN Did("export_calibration", "failed", NoPre)
                        ELSE Did("export_calibration", "written",
                                 [status |-> calib_status, rows |-> ExportedPairs(rows)])
             /\ UNCHANGED <<datasets, current_dataset_index, region_selection_active,
                            current_roi, calibVars>>

\* The user types a text into the d or the E cell of a row
edit_d(row, text) ==
    /\ calib_table' = [calib_table EXCEPT ![row].d = Item(text)]
    /\ last' = Did("edit_cell", "d", NoPre)
    /\ UNCHANGED <<datasets, current_dataset_index, region_selection_active, current_roi,
                   calibrated, calib_params, calib_status>>

edit_E(row, text) ==
    /\ calib_table' = [calib_table EXCEPT ![row].E = Item(text)]
    /\ last' = Did("edit_cell", "E", NoPre)
    /\ UNCHANGED <<datasets, current_dataset_index, region_selection_active, current_roi,
                   calibrated, calib_params, calib_status>>

----------------------------------------------------------------------------
(* Dataset selector and import *)

\* Variant: the index is taken over without the range test
on_dataset_changed_Unchecked(index) ==
    /\ current_dataset_index' = index
    /\ last' = Did("on_dataset_changed", "switched", NoPre)
    /\ UNCHANGED <<datasets, region_selection_active, current_roi, calibVars>>

on_dataset_changed(index) ==
    IF 0 <= index /\ index < Len(datasets)
    THEN /\ current_dataset_index' = index
         /\ last' = Did("on_dataset_changed", "switched", NoPre)
         /\ UNCHANGED <<datasets, region_selection_active, current_roi, calibVars>>
    ELSE UNCHANGED vars

\* np.loadtxt squeezes: a file with one row or one column loads as a 1-D array
LoadedNdim(file) == IF Len(file) >= 2 /\ Len(file[1]) >= 2 THEN 2 ELSE 1

\* Variant: only the column count is looked at
LoadFails_ColumnsOnly(file) == file # <<>> /\ Len(file[1]) < 2

\* raw_data.ndim != 2 or raw_data.shape[1] < 2 raises ValueError
LoadFails(file) == LoadedNdim(file) # 2 \/ Len(file[1]) < 2

\* Variant: every row is kept
DropLast_KeepsAll(rows) == rows

\* raw_data = raw_data[:-1]
DropLast(rows) == IF Len(rows) > 0 THEN SubSeq(rows, 1, Len(rows) - 1) ELSE rows

import_data(file) ==
    IF LoadFails(file)
    THEN /\ last' = Did("import_data", "failed", Shape(file))
         /\ UNCHANGED <<datasets, current_dataset_index, region_selection_active, current_roi, calibVars>>
    ELSE /\ datasets' = Append(datasets, Dataset(DropLast(file)))
         /\ current_dataset_index' = Len(datasets')  - 1
         /\ last' = Did("import_data", "loaded", Loaded(file))
         /\ UNCHANGED <<region_selection_active, current_roi, calibVars>>

\* np.savetxt(filename, dataset.adjusted_data, ...); chosen = a file name came
\* back from the save dialog.  The table written is kept in the history.
export_data(chosen) ==
    IF ~HasCurrent \/ ~chosen
    THEN UNCHANGED vars
    ELSE /\ last' = Did("export_data", "written", [table |-> datasets[Cur].adjusted_data])
         /\ UNCHANGED <<datasets, current_dataset_index, region_selection_active, current_roi, calibVars>>

----------------------------------------------------------------------------
(* The state machine *)

Init ==
    /\ datasets = <<>>
    /\ current_dataset_index = -1
    /\ region_selection_active = FALSE
    /\ current_roi = NoRoi
    /\ last = Did("init", "init", NoPre)
    /\ calib_table = DefaultTable
    /\ calibrated = "unset"
    /\ calib_params = NoParams
    /\ calib_status = StatusWaiting

RECURSIVE TotalRegions(_)
TotalRegions(ds) ==
    IF ds = <<>> THEN 0 ELSE Len(Head(ds).selected_regions) + TotalRegions(Tail(ds))

\* A drag is begun only while there is room for the region it would commit
Press ==
    \E x \in PressXs, inaxes \in BOOLEAN :
        /\ TotalRegions(datasets) < MaxRegions
        /\ on_press(x, inaxes)

PalettePress ==
    \E x \in PressXs :
        /\ TotalRegions(datasets) < MaxPaletteRegions
        /\ on_press(x, TRUE)

Motion == \E x \in MotionXs, inaxes \in BOOLEAN : on_motion(x, inaxes)

Release ==
    \E x \in ReleaseXs, inaxes \in BOOLEAN :
        /\ on_release(x, inaxes)
        /\ TotalRegions(datasets') <= MaxRegions

\* The same release events, with room for more regions than the palette has colors
PaletteRelease ==
    \E x \in PaletteReleaseXs :
        /\ on_release(x, TRUE)
        /\ TotalRegions(datasets') <= MaxPaletteRegions

FitPeaks == fit_peaks

ClearAll == clear_all

AdjustEnergyAxis == \E ta \in ATexts, tb \in BTexts, tc \in CTexts : adjust_energy_axis(ta, tb, tc)

\* currentIndexChanged is emitted only when the selector's index changes
DatasetChanged ==
    \E index \in -1..MaxDatasets :
        /\ index # current_dataset_index
        /\ on_dataset_changed(index)

ImportData == \E file \in Files : Len(datasets) < MaxDatasets /\ import_data(file)

ExportData == \E chosen \in BOOLEAN : export_data(chosen)

Next ==
    \/ ToggleSelection
    \/ Press
    \/ Motion
    \/ Release
    \/ FitPeaks
    \/ ClearAll
    \/ AdjustEnergyAxis
    \/ DatasetChanged
    \/ ImportData
    \/ ExportData

Spec == Init /\ [][Next]_vars

\* One file loaded, then only region drawing and clearing: long region lists
PaletteInit ==
    /\ datasets = <<Dataset(DropLast(FileThreeCol))>>
    /\ current_dataset_index = 0
    /\ region_selection_active = FALSE
    /\ current_roi = NoRoi
    /\ last = Did("import_data", "loaded", Loaded(FileThreeCol))
    /\ calib_table = DefaultTable
    /\ calibrated = "unset"
    /\ calib_params = NoParams
    /\ calib_status = StatusWaiting

PaletteNext ==
    \/ ToggleSelection
    \/ PalettePress
    \/ PaletteRelease
    \/ ClearAll

SpecPalette == PaletteInit /\ [][PaletteNext]_vars

\* Import, selector and calibration with coefficients of every sign, the
\* quadratic one included
WideAdjustEnergyAxis ==
    \E ta \in WideATexts, tb \in WideBTexts, tc \in WideCTexts : adjust_energy_axis(ta, tb, tc)

WideImportData == \E file \in WideFiles : Len(datasets) < MaxDatasets /\ import_data(file)

CalibNext ==
    \/ WideAdjustEnergyAxis
    \/ DatasetChanged
    \/ WideImportData
    \/ ExportData

SpecCalib == Init /\ [][CalibNext]_vars

\* The 2-theta calibration panel on its own: cell edits and the Calibrate button
EditD == \E row \in 1..TableRows, text \in DTexts : edit_d(row, text)

EditE == \E row \in 1..TableRows, text \in ETexts : edit_E(row, text)

Calibrate2Theta == calibrate_2theta

ExportCalibration == \E chosen \in BOOLEAN : export_calibration(chosen)

ThetaNext ==
    \/ EditD
    \/ EditE
    \/ Calibrate2Theta
    \/ ExportCalibration

SpecTheta == Init /\ [][ThetaNext]_vars

----------------------------------------------------------------------------
(* Properties *)

\* The dataset the last handler worked on, its series, and its regions that
\* select at least one sample, in region order
Worked == datasets[Cur]
WorkedSeries == CurrentSeries(Worked)
SelectsSamples(r) == Masked(WorkedSeries, r) # <<>>
NonEmptyRegions == SelectSeq(Worked.selected_regions, SelectsSamples)
JustFitted == last.op = "fit_peaks"
JustAdjusted == last.op = "adjust_energy_axis" /\ last.tag = "done"

\* C1: right after a successful adjust_energy_axis the current dataset has no
\* regions and no fit results, whatever it held before.
C1_CalibrationClearsRegionsAndFits ==
    JustAdjusted =>
        /\ HasCurrent
        /\ Worked.selected_regions = <<>>
        /\ Worked.fit_results = <<>>

\* A dataset that was already calibrated and held regions and fit results is calibrated again
C1_Witness ==
    /\ JustAdjusted
    /\ last.pre.adjusted /\ last.pre.regions /\ last.pre.fits > 0

\* C2: every stored region has both bounds captured in the coordinate system
\* that is current for its dataset: the region a release has just stored has
\* no bound captured before that dataset's most recent successful calibration.
C2_NoBoundPredatesCalibration ==
    (last.op = "on_release" /\ last.tag = "commit") => last.pre.origin # "stale"

\* C3: after fit_peaks, fit_results[i] is the result computed from
\* selected_regions[i], for every index of fit_results.
C3_ResultsAlignedWithRegions ==
    JustFitted =>
        \A i \in 1..Len(Worked.fit_results) :
            /\ i <= Len(Worked.selected_regions)
            /\ SelectsSamples(Worked.selected_regions[i])
            /\ Worked.fit_results[i] =
                   FitOne(Masked(WorkedSeries, Worked.selected_regions[i]), Worked.selected_regions[i])

\* C4: fit_peaks appends exactly one result for every region that selects a
\* sample: the fitted record when curve_fit returns, the placeholder (p0,
\* zero covariance, fwhm = integral = r_squared = 0) when it raises; an error
\* neither drops the region nor stops the later regions from being fitted.
C4_OneResultPerNonEmptyRegion ==
    JustFitted =>
        /\ Len(Worked.fit_results) = Len(NonEmptyRegions)
        /\ \A k \in 1..Len(NonEmptyRegions) :
              LET r == Worked.fit_results[k]
                  call == CurveFitCall(Masked(WorkedSeries, NonEmptyRegions[k]), NonEmptyRegions[k])
              IN  /\ r.call = call
                  /\ IF CurveFitRaises(call)
                     THEN /\ r.params = "p0" /\ r.cov = "zeros(5,5)"
                          /\ r.fwhm = "0" /\ r.integral = "0" /\ r.r_squared = "0"
                     ELSE /\ r.params = "popt" /\ r.cov = "pcov"
                          /\ r.fwhm = "2*sqrt(2*ln2)*popt[2]"
                          /\ r.integral = "simps(gaussian)"
                          /\ r.r_squared = "1-ss_res/ss_tot"

\* A fit in which the solver raised for one region and the next region was still fitted
C4_Witness ==
    /\ JustFitted
    /\ \E k \in 1..(Len(Worked.fit_results) - 1) :
          /\ Worked.fit_results[k].params = "p0"
          /\ Worked.fit_results[k + 1].params = "popt"

\* C5: a region that selects no sample leaves no entry, and the other regions'
\* results are what fitting the list without that region gives.
C5_EmptyRegionLeavesNoTrace ==
    JustFitted =>
        Worked.fit_results = FitLoop(WorkedSeries, NonEmptyRegions, 1, <<>>)

\* A fit over a region without samples followed by a region with samples
C5_Witness ==
    /\ JustFitted
    /\ Len(Worked.selected_regions) >= 2
    /\ ~SelectsSamples(Worked.selected_regions[1])
    /\ SelectsSamples(Worked.selected_regions[2])
    /\ Len(Worked.fit_results) = 1

\* The ROI bounds each fit result was computed with, and the bounds of the
\* regions that select samples
BoundsFitted == [k \in 1..Len(Worked.fit_results) |->
                   <<Worked.fit_results[k].call.lb[2], Worked.fit_results[k].call.ub[2]>>]
BoundsSelecting == [k \in 1..Len(NonEmptyRegions) |->
                      <<NonEmptyRegions[k].x_min, NonEmptyRegions[k].x_max>>]

\* C6: after fit_peaks the list holds only this invocation's results, in
\* region order; nothing of the earlier list survives.
C6_OnlyThisInvocationsResults == JustFitted => BoundsFitted = BoundsSelecting

\* A second fit of a dataset that already had results and has gained a region since
C6_Witness ==
    /\ JustFitted
    /\ last.pre.fits > 0
    /\ Len(Worked.fit_results) > last.pre.fits

\* C7: no dataset ever has more fit results than regions.
C7_NoResultWithoutRegion ==
    \A k \in 1..Len(datasets) :
        Len(datasets[k].fit_results) <= Len(datasets[k].selected_regions)

\* A fit has left a dataset with one result for every one of its regions
C7_Witness ==
    /\ \E k \in 1..Len(datasets) :
          /\ Len(datasets[k].fit_results) >= 1
          /\ Len(datasets[k].fit_results) = Len(datasets[k].selected_regions)
    /\ last.op = "fit_peaks"

\* C8: a release within 0.001 of the press creates no region: the datasets
\* are unchanged and the pending drag is gone.
TinyDrag(x) ==
    region_selection_active /\ current_roi.some /\ Abs(x - current_roi.x_min) <= Epsilon

C8_TinyDragCreatesNothing ==
    [][\A x \in ReleaseXs :
          (TinyDrag(x) /\ on_release(x, TRUE)) => (datasets' = datasets /\ current_roi' = NoRoi)]_vars

\* A release exactly 0.001 away from the press has been handled
C8_Witness ==
    /\ last.op = "on_release" /\ last.tag = "tiny"
    /\ Abs(last.pre.x_release - last.pre.x_press) = Epsilon
    /\ current_roi = NoRoi

\* C9: a commit stores the smaller pointer position as x_min and the larger as
\* x_max; every stored region has x_min < x_max, is wider than 0.001 and has
\* width = x_max - x_min.
JustCommitted == last.op = "on_release" /\ last.tag = "commit"
Committed == Worked.selected_regions[Len(Worked.selected_regions)]

C9_RegionsNormalised ==
    /\ \A k \in 1..Len(datasets) :
          \A i \in 1..Len(datasets[k].selected_regions) :
              LET r == datasets[k].selected_regions[i]
              IN  /\ r.x_min < r.x_max
                  /\ r.x_max - r.x_min > Epsilon
                  /\ r.width = r.x_max - r.x_min
    /\ JustCommitted =>
          /\ Committed.x_min \in {last.pre.x_press, last.pre.x_release}
          /\ Committed.x_max \in {last.pre.x_press, last.pre.x_release}
          /\ Committed.x_min <= last.pre.x_press /\ Committed.x_min <= last.pre.x_release
          /\ Committed.x_max >= last.pre.x_press /\ Committed.x_max >= last.pre.x_release

\* A drag from right to left has been committed
C9_Witness == JustCommitted /\ last.pre.x_release < last.pre.x_press

\* C10: the region at index i (from 0) of any dataset has color
\* palette[i mod 10], whatever its bounds; a region committed into an empty
\* list (also after a clear) gets palette[0].
C10_ColorByCreationIndex ==
    /\ Len(colors) = 10
    /\ \A k \in 1..Len(datasets) :
          \A i \in 1..Len(datasets[k].selected_regions) :
              datasets[k].selected_regions[i].color = colors[((i - 1) % 10) + 1]

\* An eleventh region, with other bounds than the first, wears the first color again
C10_Witness ==
    \E k \in 1..Len(datasets) :
        /\ Len(datasets[k].selected_regions) >= 11
        /\ datasets[k].selected_regions[11].color = colors[1]
        /\ datasets[k].selected_regions[11].x_min # datasets[k].selected_regions[1].x_min

\* C11: after a successful adjust_energy_axis the adjusted series has the raw
\* series' rows in the same number and order; row i keeps the raw counts and
\* its x is a*ch^2 + b*ch + c of the raw channel ch of row i.
C11_AdjustedIsQuadraticOfRaw ==
    JustAdjusted =>
        /\ Len(Worked.adjusted_data) = Len(Worked.raw_data)
        /\ \A i \in 1..Len(Worked.raw_data) :
              LET ch == Worked.raw_data[i][1]
                  quadratic == (last.pre.a * ch * ch) \div (Milli * Milli)
                  linear == (last.pre.b * ch) \div Milli
              IN  /\ Worked.adjusted_data[i][2] = Worked.raw_data[i][2]
                  \* both products are exact in fixed point
                  /\ quadratic * Milli * Milli = last.pre.a * ch * ch
                  /\ linear * Milli = last.pre.b * ch
                  /\ Worked.adjusted_data[i][1] = quadratic + linear + last.pre.c

\* A dataset that was already calibrated is calibrated again with a non-zero
\* quadratic coefficient, and its x values move away from the raw channels
C11_Witness ==
    /\ JustAdjusted
    /\ last.pre.adjusted
    /\ last.pre.a # 0 /\ last.pre.b # 0 /\ last.pre.c # 0
    /\ \A i \in 1..Len(Worked.raw_data) : Worked.adjusted_data[i][1] # Worked.raw_data[i][1]

\* C12: no step changes the raw series of a dataset that exists: calibration,
\* fitting, region drawing, clearing, switching, import of another file and
\* export all leave every raw_data as import made it.
C12_RawSeriesNeverChanges ==
    [][\A k \in 1..Len(datasets) :
          /\ k <= Len(datasets')
          /\ datasets'[k].raw_data = datasets[k].raw_data]_vars

\* Two datasets are loaded; one has been calibrated away from its raw channels
\* and fitted since, and the last handler was a calibration, a clear or an export
C12_Witness ==
    /\ Len(datasets) = 2
    /\ last.op \in {"adjust_energy_axis", "clear_all", "export_data"}
    /\ \E k \in 1..Len(datasets) :
          /\ datasets[k].x_axis_adjusted
          /\ datasets[k].adjusted_data # datasets[k].raw_data
          /\ datasets[k].fit_results # <<>>

JustImported == last.op = "import_data" /\ last.tag = "loaded"
Newest == datasets[Len(datasets)]

\* C13: the dataset a successful import has just appended has an adjusted
\* series equal to its raw series, is not marked calibrated, and has no regions
\* and no fit results.
C13_ImportedDatasetStartsClean ==
    JustImported =>
        /\ Newest.adjusted_data = Newest.raw_data
        /\ Newest.x_axis_adjusted = FALSE
        /\ Newest.selected_regions = <<>>
        /\ Newest.fit_results = <<>>

\* A second file is imported while the first dataset is calibrated and holds
\* regions and fit results
C13_Witness ==
    /\ JustImported
    /\ Len(datasets) = 2
    /\ datasets[1].x_axis_adjusted
    /\ datasets[1].selected_regions # <<>>
    /\ datasets[1].fit_results # <<>>

TooFewColumns(file) == \E i \in 1..Len(file) : Len(file[i]) < 2
NoRowsLeft(file) == Len(file) <= 1
WellFormed(d) ==
    /\ Len(d.raw_data) >= 1
    /\ \A i \in 1..Len(d.raw_data) : Len(d.raw_data[i]) >= 2

\* C14: an import of a table with fewer than two columns, or with no row left
\* once its last row is dropped, adds no dataset and leaves the dataset list
\* and the current index as they were; so every dataset there is has at least
\* two columns and at least one row.
C14_BadTableAddsNothing ==
    [][/\ \A file \in WideFiles :
            ((TooFewColumns(file) \/ NoRowsLeft(file)) /\ import_data(file)) =>
                (datasets' = datasets /\ current_dataset_index' = current_dataset_index)
       /\ \A k \in 1..Len(datasets') : WellFormed(datasets'[k])]_vars

\* With one dataset loaded and current, a one-row table of two columns has just
\* been refused
C14_Witness ==
    /\ last.op = "import_data" /\ last.tag = "failed"
    /\ last.pre.rows = 1 /\ last.pre.columns >= 2
    /\ Len(datasets) = 1 /\ current_dataset_index = 0

\* C15: the raw series of the dataset a successful import has just appended is
\* the table without its last row: one row fewer, the other rows as they were
\* and in the same order.
C15_LastRowDropped ==
    JustImported =>
        /\ Len(Newest.raw_data) = Len(last.pre.file) - 1
        /\ \A i \in 1..Len(Newest.raw_data) : Newest.raw_data[i] = last.pre.file[i]

\* A table of two rows whose last row is ordinary data has been imported and
\* left a dataset of one row
C15_Witness ==
    /\ JustImported
    /\ last.pre.file = FileTwoRows
    /\ Len(Newest.raw_data) = 1

NonNumeric(t) == t \in {"abc", "", "1e"}

\* C16: adjust_energy_axis with a, b or c that is not a number changes no
\* dataset: adjusted series, calibrated flag, regions and fit results stay.
C16_InvalidCoefficientsChangeNothing ==
    [][last'.op = "adjust_energy_axis" =>
          \A ta \in ATexts, tb \in BTexts, tc \in CTexts :
              ((NonNumeric(ta) \/ NonNumeric(tb) \/ NonNumeric(tc))
                    /\ adjust_energy_axis(ta, tb, tc)) =>
                  datasets' = datasets]_vars

\* Invalid coefficients have just been refused on a calibrated dataset that
\* holds regions and fit results
C16_Witness ==
    /\ last.op = "adjust_energy_axis" /\ last.tag = "invalid"
    /\ Worked.x_axis_adjusted
    /\ Worked.selected_regions # <<>>
    /\ Worked.fit_results # <<>>

\* C20: a step changes at most the dataset that is current when it starts:
\* every other dataset keeps its raw and adjusted series, its calibrated flag,
\* its regions and its fit results (so no two datasets share a region list or
\* a fit-result list: a write through a shared list would show in the other).
C20_OnlyCurrentDatasetChanges ==
    [][\A k \in 1..Len(datasets) :
          (~HasCurrent \/ k # Cur) =>
              (k <= Len(datasets') /\ datasets'[k] = datasets[k])]_vars

\* A region commit, a fit, a clear or a calibration has just run on one dataset
\* while the other one is calibrated and holds a region and a fit result
C20_Witness ==
    /\ Len(datasets) = 2
    /\ HasCurrent
    /\ \/ last.op \in {"fit_peaks", "clear_all"}
       \/ last.op = "adjust_energy_axis" /\ last.tag = "done"
       \/ last.op = "on_release" /\ last.tag = "commit"
    /\ \E k \in 1..2 :
          /\ k # Cur
          /\ datasets[k].x_axis_adjusted
          /\ datasets[k].selected_regions # <<>>
          /\ datasets[k].fit_results # <<>>

\* A cell that holds a number, and the rows whose d and E both do
ParsesAsNumber(cell) == cell.item /\ cell.text \in {"2.1065", "1.4895", "5", "2", "0"}
CompleteRow(row) == ParsesAsNumber(row.d) /\ ParsesAsNumber(row.E)
CompleteRows == SelectSeq(calib_table, CompleteRow)
NumberIn(cell) == TableFloat(cell.text).val
ResultKept == UNCHANGED <<calibrated, calib_params, calib_status>>

\* hc / (2 d E) > 1 for the pair of some complete row
OutOfDomainRow(row) ==
    /\ CompleteRow(row)
    /\ 2 * NumberIn(row.d) * NumberIn(row.E) > 0
    /\ HC_KEV_ANGSTROM > 2 * NumberIn(row.d) * NumberIn(row.E)

\* C17: a 2-theta calibration run on a table that holds a pair with
\* hc/(2dE) > 1 records nothing: the stored mean and deviation, the calibrated
\* flag and the status text stay as they were.
C17_OutOfDomainRecordsNothing ==
    [][((\E r \in 1..TableRows : OutOfDomainRow(calib_table[r])) /\ calibrate_2theta)
          => ResultKept]_vars

\* C18: a 2-theta calibration run on a table with no complete (d, E) pair
\* records nothing: calibration parameters, calibrated flag and status text stay.
C18_NoPairsRecordsNothing ==
    [][(CompleteRows = <<>> /\ calibrate_2theta) => ResultKept]_vars

\* After a calibration that succeeded, one run on a table whose rows are all
\* incomplete (a d without a number, an E left empty) has just been refused
C18_Witness ==
    /\ last.op = "calibrate_2theta" /\ last.tag = "nopairs"
    /\ calibrated = "True" /\ calib_params.some
    /\ \E r \in 1..TableRows : calib_table[r].d.text = "abc"
    /\ \E r \in 1..TableRows : calib_table[r].E.item /\ calib_table[r].E.text = ""

JustCalibrated2Theta == last.op = "calibrate_2theta" /\ last.tag = "done"

\* C19: a calibration that has just succeeded reports n = the number of rows
\* whose d and E both hold a number, and its mean and deviation are taken over
\* exactly those rows, in row order: the other rows add nothing and cause no error.
C19_IncompleteRowsSkipped ==
    JustCalibrated2Theta =>
        /\ calib_status.n = Len(CompleteRows)
        /\ \A stat \in {calib_params.avg, calib_params.std} :
              /\ Len(stat.of) = Len(CompleteRows)
              /\ \A i \in 1..Len(CompleteRows) :
                    /\ stat.of[i].d = NumberIn(CompleteRows[i].d)
                    /\ stat.of[i].E = NumberIn(CompleteRows[i].E)
        /\ calib_status.avg = calib_params.avg
        /\ calib_status.std = calib_params.std

\* A calibration has succeeded on a table with a complete row and a row whose
\* d is not a number while its E is
C19_Witness ==
    /\ JustCalibrated2Theta
    /\ calib_status.n >= 1
    /\ \E r \in 1..TableRows :
          /\ calib_table[r].d.text = "abc"
          /\ ParsesAsNumber(calib_table[r].E)

\* C21: the table export_data writes has exactly two columns in every row,
\* whether or not the dataset was calibrated and however many columns the
\* imported table had.
C21_ExportedTableHasTwoColumns ==
    last.op = "export_data" =>
        \A i \in 1..Len(last.pre.table) : Len(last.pre.table[i]) = 2

\* C22: a step of clear_all leaves the current dataset without regions and
\* without fit results, and with the raw series, adjusted series and
\* calibrated flag it had; without a current dataset nothing changes.
C22_ClearAllEmptiesListsOnly ==
    [][(last'.op = "clear_all" /\ clear_all) =>
          IF HasCurrent
          THEN /\ datasets'[Cur].selected_regions = <<>>
               /\ datasets'[Cur].fit_results = <<>>
               /\ datasets'[Cur].raw_data = datasets[Cur].raw_data
               /\ datasets'[Cur].adjusted_data = datasets[Cur].adjusted_data
               /\ datasets'[Cur].x_axis_adjusted = datasets[Cur].x_axis_adjusted
          ELSE UNCHANGED vars]_vars

\* clear_all has just emptied a calibrated dataset that held regions and fit
\* results; its adjusted series still differs from the raw one
C22_Witness ==
    /\ last.op = "clear_all"
    /\ last.pre.regions /\ last.pre.fits > 0 /\ last.pre.adjusted
    /\ Worked.x_axis_adjusted
    /\ Worked.adjusted_data # Worked.raw_data

\* C23: fit_peaks run right after fit_peaks, with nothing changed in between,
\* leaves the fit-result list (and every dataset) as the first run left it.
C23_FitTwiceSameResults ==
    [][(last.op = "fit_peaks" /\ last'.op = "fit_peaks") => datasets' = datasets]_vars

\* fit_peaks has run twice in a row on a dataset with two regions and left two results
C23_Witness ==
    /\ last.op = "fit_peaks"
    /\ last.pre.again
    /\ last.pre.fits = 2
    /\ Len(Worked.fit_results) = 2

\* C24: the series a successful adjust_energy_axis leaves is the one the same
\* coefficients give on a dataset fresh from import of the same raw series,
\* whatever calibration was there before.
C24_CalibrationFromRawOnly ==
    JustAdjusted =>
        Worked.adjusted_data =
            Adjusted(Dataset(Worked.raw_data), last.pre.a, last.pre.b, last.pre.c).adjusted_data

\* A dataset calibrated before with other coefficients, so that its adjusted
\* series was neither the raw one nor the one it has now, is calibrated again
C24_Witness ==
    /\ JustAdjusted
    /\ last.pre.adjusted
    /\ last.pre.was # Worked.raw_data
    /\ last.pre.was # Worked.adjusted_data

\* C25: a dataset not marked calibrated has an adjusted series equal to its
\* raw series, and no step takes the calibrated mark away from a dataset.
C25_FlagMonotoneAndUnadjustedIsRaw ==
    [][/\ \A k \in 1..Len(datasets') :
            ~datasets'[k].x_axis_adjusted => datasets'[k].adjusted_data = datasets'[k].raw_data
       /\ \A k \in 1..Len(datasets) :
            datasets[k].x_axis_adjusted => datasets'[k].x_axis_adjusted]_vars

\* A calibrated dataset has been cleared, fitted or switched away from and is
\* still marked calibrated, next to a dataset that never was calibrated
C25_Witness ==
    /\ Len(datasets) = 2
    /\ last.op \in {"clear_all", "fit_peaks", "on_dataset_changed"}
    /\ \E k \in 1..2 : datasets[k].x_axis_adjusted /\ datasets[k].adjusted_data # datasets[k].raw_data
    /\ \E k \in 1..2 : ~datasets[k].x_axis_adjusted

JustExportedCalibration == last.op = "export_calibration" /\ last.tag = "written"

\* The (d, E) pairs the mean of a status line was taken over
PairsBehind(status) == [i \in 1..Len(status.avg.of) |-> <<status.avg.of[i].d, status.avg.of[i].E>>]

\* C26: the reference pairs export_calibration writes are the pairs the status
\* line it writes was computed from.
C26_ExportedRowsMatchStatus ==
    JustExportedCalibration => last.pre.rows = PairsBehind(last.pre.status)

\* C27: export_calibration writes the rows calibrate_2theta accepts as
\* complete pairs, and a row whose d or E is not a number does not make it fail.
C27_ExportSelectsLikeCalibrate ==
    last.op = "export_calibration" =>
        /\ last.tag = "written"
        /\ last.pre.rows = Pairs(calib_table)

\* C28: the only step that adds a region is a release taken while selection
\* mode is on and a drag is pending; it adds one region, turns selection mode
\* off and drops the drag.  A drag is pending only while selection mode is on,
\* so it was begun by a press of the present activation.
C28_OneRegionPerActivation ==
    [][/\ TotalRegions(datasets') > TotalRegions(datasets) =>
            /\ region_selection_active /\ current_roi.some
            /\ last'.op = "on_release"
            /\ TotalRegions(datasets') = TotalRegions(datasets) + 1
            /\ ~region_selection_active'
            /\ current_roi' = NoRoi
       /\ current_roi'.some => region_selection_active']_vars

\* A second activation of selection mode has ended with the commit of a second
\* region of the same dataset
C28_Witness ==
    /\ JustCommitted
    /\ ~region_selection_active /\ current_roi = NoRoi
    /\ Len(Worked.selected_regions) = 2

\* C29: a release that commits a region of a drag begun while some dataset
\* was current appends the region to that dataset.
C29_RegionGoesToPressDataset ==
    [][(last'.op = "on_release" /\ last'.tag = "commit" /\ current_roi.g_ds >= 0) =>
          Len(datasets'[current_roi.g_ds + 1].selected_regions) =
              Len(datasets[current_roi.g_ds + 1].selected_regions) + 1]_vars

\* C30: the current index is -1 exactly while there is no dataset and a valid
\* position otherwise; an import that adds a dataset makes it the current
\* one; a selector event with an index out of range leaves the index alone.
C30_CurrentIndexInRange ==
    [][/\ current_dataset_index' = -1 <=> datasets' = <<>>
       /\ datasets' # <<>> =>
            (0 <= current_dataset_index' /\ current_dataset_index' < Len(datasets'))
       /\ Len(datasets') > Len(datasets) => current_dataset_index' = Len(datasets') - 1
       /\ last'.op = "on_dataset_changed" =>
            \A index \in -1..MaxDatasets :
                ((index < 0 \/ index >= Len(datasets)) /\ on_dataset_changed(index)) =>
                    current_dataset_index' = current_dataset_index]_vars

\* With two datasets loaded the selector has moved the current index back
\* from the newest dataset to the first
C30_Witness ==
    /\ last.op = "on_dataset_changed"
    /\ Len(datasets) = 2
    /\ current_dataset_index = 0

====
